---- MODULE Spec2Model ----
(***************************************************************************)
(* Room/game orchestration engine of backend/socket/socketHandler.js and   *)
(* backend/routes/rooms.js: one tic-tac-toe room, its readiness countdown  *)
(* and its move handler, over the room document kept in the store.         *)
(*                                                                         *)
(* The room document is the only shared state.  A handler runs atomically  *)
(* between two awaits; the game-move handler is modelled await by await    *)
(* (first read, second read + validation + broadcast, detached write),     *)
(* the other handlers as one step each.                                    *)
(***************************************************************************)
EXTENDS Integers, Sequences, FiniteSets, Bags, TLC

VARIABLES
    room,        \* the Room document in the store (models/Room.js)
    countdown,   \* closure variable of the live countdown interval, 0 = no live interval
    moveRead1,   \* game-move handlers between their first and second read of the room
    writes,      \* bag of detached Room.findByIdAndUpdate calls not yet completed
    games,       \* number of startGame runs that initialised a game (bounded)
    events,      \* number of toggle-ready, join-room, leave-room and restart-game events (bounded)
    timers,      \* bag of pending timers created for the room by the quiz engine
    tasks,       \* bag of asynchronous calls of the quiz engine suspended at an await
    hist,        \* history of the current game: who made the last accepted move,
                 \* whether an accepted move has ended the game, the quiz
                 \* rounds whose results have been emitted, and the users
                 \* whose socket has disconnected, each with the round whose
                 \* question was active then
    last         \* the step just taken: handler, sender, outcome, emissions, issued update

vars == <<room, countdown, moveRead1, writes, games, events, timers, tasks, hist, last>>

----------------------------------------------------------------------------
(* Bounds of the model *)

\* game-move handlers in flight at once (read done, write not yet completed)
MaxInflight == 2
\* the same, in the full-board specification
MaxInflightFull == 1
\* startGame runs followed in one behaviour
MaxGames == 2
\* toggle-ready, join-room, leave-room and restart-game events followed in one behaviour
MaxEvents == 2
\* calls of the quiz engine suspended at an await at once
MaxTasks == 2
\* answers kept in gameData.answers in one behaviour
MaxAnswers == 2

(* Program constants *)

\* let countdown = 5
CountdownStart == 5
\* latestRoom.players[fullPlayerIndex].score + 10
WinBonus == 10
\* roomSchema.pre('save'): tic-tac-toe rooms hold 2 players
MaxPlayers == 2
\* roomSchema.pre('save'): quiz rooms hold 4 players
MaxPlayersQuiz == 4
\* generateQuizQuestions returns 5 questions; processQuizQuestion ends the game at index 5
NumQuestions == 5
\* let points = 10
QuestionPoints == 10
\* points += 5
SpeedBonus == 5
\* answer.timeAnswered <= 5
SpeedLimit == 5
\* timeAnswered when the room read has no questionSentAt
DefaultTimeAnswered == 20
\* timeLimit: 20 of the quiz-question event
TimeLimit == 20

Users == {"A", "B"}
Creator == "A"
NULL == "null"

Rows == 0..2
Cols == 0..2
EmptyBoard == [r \in Rows |-> [c \in Cols |-> ""]]
AllBoards == [Rows -> [Cols -> {"", "X", "O"}]]

\* positions a client sends in the concurrent specification: four cells and one outside the grid
RacePositions == {<<0, 0>>, <<0, 1>>, <<0, 2>>, <<1, 1>>, <<3, 0>>}
\* positions a client sends in the full-board specification: all nine cells and two outside
FullPositions == (Rows \X Cols) \cup {<<-1, 1>>, <<1, 3>>}

----------------------------------------------------------------------------
(* The room document *)

NewPlayer(u) == [user |-> u, isReady |-> FALSE, score |-> 0, isSpectator |-> FALSE]

\* questions is the length of gameData.questions, questionSet tells which
\* questions generateQuizQuestions put there (0 when there are none)
NewRoom(u) ==
    [exists |-> TRUE, gameType |-> "tic-tac-toe", host |-> u,
     players |-> <<NewPlayer(u)>>,
     gameState |-> "waiting", board |-> EmptyBoard,
     currentTurn |-> NULL, winner |-> NULL,
     currentQuestion |-> 0, questions |-> 0, questionSet |-> 0, answers |-> <<>>]

NewQuizRoom(u) == [NewRoom(u) EXCEPT !.gameType = "quiz"]

maxPlayers(r) == IF r.gameType = "tic-tac-toe" THEN MaxPlayers ELSE MaxPlayersQuiz

activePlayers(r) == SelectSeq(r.players, LAMBDA p : ~p.isSpectator)

allReady(ps) == Len(ps) > 0 /\ \A i \in 1..Len(ps) : ps[i].isReady

\* Array.prototype.findIndex(p => p.user.toString() === u): zero-based index of the
\* first match, -1 if none
RECURSIVE findIndexFrom(_, _, _)
findIndexFrom(ps, u, i) ==
    IF i > Len(ps) THEN -1
    ELSE IF ps[i].user = u THEN i - 1
    ELSE findIndexFrom(ps, u, i + 1)

findIndex(ps, u) == findIndexFrom(ps, u, 1)

RemoveUser(ps, u) == SelectSeq(ps, LAMBDA p : p.user # u)

----------------------------------------------------------------------------
(* Emissions *)

ToSender(u, msg) == [to |-> u, event |-> "error", data |-> msg]
ToRoom(ev, d) == [to |-> "room", event |-> ev, data |-> d]
ToOthers(ev, d) == [to |-> "others", event |-> ev, data |-> d]

NoHistory ==
    [mover |-> NULL, over |-> FALSE, processed |-> {}, disconnected |-> {},
     issued |-> {}, scored |-> {}]

Step(op, u, outcome, emits, update) ==
    [op |-> op, user |-> u, outcome |-> outcome, emits |-> emits, update |-> update]

----------------------------------------------------------------------------
(* Timer registry and countdown *)

\* a pending timer of the quiz engine: what its callback runs, the question index
\* its closure holds, and whether addRoomTimer put it in roomTimers
Timer(kind, q, reg) == [kind |-> kind, q |-> q, reg |-> reg]

\* a registration that loses the timer it is given
dropTimer(ts, kind, q) == ts

\* addRoomTimer after setTimeout
addRoomTimer(ts, kind, q) == ts (+) SetToBag({Timer(kind, q, TRUE)})

\* clearRoomTimers: clearTimeout on every timer of roomTimers; a timer that is not
\* in roomTimers stays pending
clearRoomTimers(ts) == [t \in {x \in BagToSet(ts) : ~x.reg} |-> ts[t]]

\* a call that a timer callback made before clearRoomTimers and that is still
\* suspended is remembered as started before the cancellation
cancelled(tk) ==
    LET mark(k) == IF k.fromTimer THEN [k EXCEPT !.stale = TRUE] ELSE k
        marked == {mark(k) : k \in BagToSet(tk)}
    IN  [m \in marked |->
            BagCardinality([k \in {x \in BagToSet(tk) : mark(x) = m} |-> tk[k]])]

\* startCountdown after its findById: clearRoomTimers drops the live interval and
\* the room's other timers, and a new interval is armed at CountdownStart
startCountdown(r, cd) == IF r.exists THEN CountdownStart ELSE cd

\* the condition under which checkAndStartCountdown calls startCountdown: a
\* waiting room with at least 2 active players
countdownStarts(r) ==
    r.exists /\ r.gameState = "waiting" /\ Len(activePlayers(r)) >= 2

checkAndStartCountdown(r, cd) ==
    IF countdownStarts(r)
    THEN startCountdown(r, cd)
    ELSE cd

----------------------------------------------------------------------------
(* Tic-tac-toe rules *)

RowWin(board, i) ==
    board[i][0] # "" /\ board[i][0] = board[i][1] /\ board[i][0] = board[i][2]

ColWin(board, i) ==
    board[0][i] # "" /\ board[0][i] = board[1][i] /\ board[0][i] = board[2][i]

DiagWin(board) ==
    board[0][0] # "" /\ board[0][0] = board[1][1] /\ board[0][0] = board[2][2]

AntiDiagWin(board) ==
    board[0][2] # "" /\ board[0][2] = board[1][1] /\ board[0][2] = board[2][0]

\* the for loop of checkTicTacToeWinner from index i on, then the two diagonals;
\* "" stands for the null it returns when no line is found
RECURSIVE winnerScan(_, _)
winnerScan(board, i) ==
    IF i < 3
    THEN IF RowWin(board, i) THEN board[i][0]
         ELSE IF ColWin(board, i) THEN board[0][i]
         ELSE winnerScan(board, i + 1)
    ELSE IF DiagWin(board) THEN board[0][0]
         ELSE IF AntiDiagWin(board) THEN board[0][2]
         ELSE ""

\* a winner check that forgets the diagonals
checkRowsAndColumns(board) ==
    IF \E i \in 0..2 : RowWin(board, i) \/ ColWin(board, i) THEN "X" ELSE ""

checkTicTacToeWinner(board) == winnerScan(board, 0)

\* a fullness check that looks at the first row only
isFirstRowFull(board) == \A c \in Cols : board[0][c] # ""

isBoardFull(board) == \A r \in Rows : \A c \in Cols : board[r][c] # ""

symbolOf(playerIndex) == IF playerIndex = 0 THEN "X" ELSE "O"

placeMark(board, row, col, symbol) == [board EXCEPT ![row][col] = symbol]

----------------------------------------------------------------------------
(* game-move on a tic-tac-toe room *)

NoUpdate ==
    [row |-> 9, col |-> 9, symbol |-> "", currentTurn |-> NULL, gameState |-> "",
     setWinner |-> FALSE, winner |-> NULL, idx |-> -1, score |-> 0]

\* the checks of handleTicTacToeMove on the room it has just read, in code order;
\* "ok" when the move passes them all
validateMove(latestRoom, u, row, col) ==
    IF ~latestRoom.exists \/ latestRoom.gameState # "playing"
    THEN "Game is not in progress"
    ELSE IF latestRoom.currentTurn = NULL
    THEN "Failed to process move"
    ELSE IF latestRoom.currentTurn # u
    THEN "Not your turn"
    ELSE IF row < 0 \/ row > 2 \/ col < 0 \/ col > 2
    THEN "Invalid move position"
    ELSE IF latestRoom.board[row][col] # ""
    THEN "Invalid move - cell already occupied"
    ELSE IF findIndex(activePlayers(latestRoom), u) = -1
    THEN "Player not found in active players"
    ELSE "ok"

\* the turn after a move that neither wins nor fills the board
nextTurn(latestRoom) ==
    LET active == activePlayers(latestRoom)
        currentPlayerIndex == findIndex(active, latestRoom.currentTurn)
        nextPlayerIndex == (currentPlayerIndex + 1) % Len(active)
    IN  active[nextPlayerIndex + 1].user

\* updateOperations of an accepted move
moveUpdate(latestRoom, u, row, col) ==
    LET symbol == symbolOf(findIndex(activePlayers(latestRoom), u))
        board == placeMark(latestRoom.board, row, col, symbol)
        winner == checkTicTacToeWinner(board)
        fullPlayerIndex == findIndex(latestRoom.players, u)
    IN  IF winner # ""
        THEN [row |-> row, col |-> col, symbol |-> symbol,
              currentTurn |-> latestRoom.currentTurn, gameState |-> "finished",
              setWinner |-> TRUE, winner |-> u, idx |-> fullPlayerIndex,
              score |-> latestRoom.players[fullPlayerIndex + 1].score + WinBonus]
        ELSE IF isBoardFull(board)
        THEN [row |-> row, col |-> col, symbol |-> symbol,
              currentTurn |-> latestRoom.currentTurn, gameState |-> "finished",
              setWinner |-> FALSE, winner |-> NULL, idx |-> -1, score |-> 0]
        ELSE [row |-> row, col |-> col, symbol |-> symbol,
              currentTurn |-> nextTurn(latestRoom), gameState |-> latestRoom.gameState,
              setWinner |-> FALSE, winner |-> NULL, idx |-> -1, score |-> 0]

\* the game-updated payload of an accepted move: the read game data with the new
\* board, and the winner and turn the update sets
gameUpdated(latestRoom, ops) ==
    [board |-> placeMark(latestRoom.board, ops.row, ops.col, ops.symbol),
     currentTurn |-> ops.currentTurn,
     winner |-> IF ops.setWinner THEN ops.winner ELSE latestRoom.winner,
     gameState |-> ops.gameState]

\* a handler that forgets the broadcast of an accepted move
emitNoGameUpdated(latestRoom, ops) == <<>>

\* what an accepted move emits
emitGameUpdated(latestRoom, ops) == <<ToRoom("game-updated", gameUpdated(latestRoom, ops))>>

\* a handler that reports a rejection with io.to(roomId) instead of socket
emitRejectedToRoom(u, msg) == <<ToRoom("error", msg)>>

\* what a rejected move emits
emitRejected(u, msg) == <<ToSender(u, msg)>>

\* the detached calls still running once an accepted move has issued its update
issueUpdate(pending, ops) == pending (+) SetToBag({ops})

\* $set of updateOperations on the stored document; the score goes to whoever holds
\* position idx of players when the update lands
applyUpdate(r, w) ==
    LET r1 == [r EXCEPT !.board[w.row][w.col] = w.symbol,
                        !.currentTurn = w.currentTurn,
                        !.gameState = w.gameState]
    IN  IF w.setWinner
        THEN [r1 EXCEPT !.winner = w.winner, !.players[w.idx + 1].score = w.score]
        ELSE r1

\* the model does not follow an update of players[idx].score that lands after the
\* players array has shrunk to idx elements or fewer
ScoreIndexInRange(ps) ==
    \A w \in BagToSet(writes) : w.setWinner => w.idx + 1 <= Len(ps)

InFlight == moveRead1 + BagCardinality(writes)

\* socket.on('game-move') up to the call of handleTicTacToeMove
GameMoveRead(u, limit) ==
    /\ InFlight < limit
    /\ IF ~room.exists
       THEN /\ last' = Step("game-move", u, "rejected",
                            emitRejected(u, "Room not found"), NoUpdate)
            /\ UNCHANGED moveRead1
       ELSE IF room.gameState # "playing"
       THEN /\ last' = Step("game-move", u, "rejected",
                            emitRejected(u, "Game is not in progress"), NoUpdate)
            /\ UNCHANGED moveRead1
       ELSE /\ last' = Step("game-move", NULL, "read", <<>>, NoUpdate)
            /\ moveRead1' = moveRead1 + 1
    /\ UNCHANGED <<room, countdown, writes, games, events, hist, timers, tasks>>

\* handleTicTacToeMove from its findById to the call of findByIdAndUpdate
HandleTicTacToeMove(u, row, col) ==
    /\ moveRead1 > 0
    /\ moveRead1' = moveRead1 - 1
    /\ LET msg == validateMove(room, u, row, col) IN
       IF msg # "ok"
       THEN /\ last' = Step("game-move", u, "rejected",
                            emitRejected(u, msg), NoUpdate)
            /\ UNCHANGED <<writes, hist>>
       ELSE LET ops == moveUpdate(room, u, row, col) IN
            /\ last' = Step("game-move", u, "accepted",
                            emitGameUpdated(room, ops), ops)
            /\ writes' = issueUpdate(writes, ops)
            /\ hist' = [hist EXCEPT !.mover = u,
                                     !.over = hist.over \/ ops.gameState = "finished"]
    /\ UNCHANGED <<room, countdown, games, events, timers, tasks>>

\* a detached findByIdAndUpdate completes
ApplyWrite(w) ==
    /\ BagIn(w, writes)
    /\ writes' = writes (-) SetToBag({w})
    /\ room' = IF room.exists THEN applyUpdate(room, w) ELSE room
    /\ last' = Step("write", NULL, "applied", <<>>, NoUpdate)
    /\ UNCHANGED <<countdown, moveRead1, games, events, hist, timers, tasks>>

\* a detached findByIdAndUpdate rejects: .catch logs the error
FailWrite(w) ==
    /\ BagIn(w, writes)
    /\ writes' = writes (-) SetToBag({w})
    /\ last' = Step("write", NULL, "failed", <<>>, NoUpdate)
    /\ UNCHANGED <<room, countdown, moveRead1, games, events, hist, timers, tasks>>

----------------------------------------------------------------------------
(* Readiness, countdown and game start *)

DeletedRoom ==
    [exists |-> FALSE, gameType |-> "", host |-> NULL, players |-> <<>>,
     gameState |-> "waiting", board |-> EmptyBoard,
     currentTurn |-> NULL, winner |-> NULL,
     currentQuestion |-> 0, questions |-> 0, questionSet |-> 0, answers |-> <<>>]

\* a game start that gives the first turn to the last active player
startGameLastTurn(r) ==
    IF ~r.exists \/ Len(activePlayers(r)) = 0
    THEN r
    ELSE [r EXCEPT !.gameState = "playing",
                   !.board = EmptyBoard,
                   !.currentTurn = activePlayers(r)[Len(activePlayers(r))].user,
                   !.winner = NULL]

\* what startGame saves: the room is set to playing with fresh tic-tac-toe data;
\* with no active player activePlayers[0].user throws before room.save()
startGame(r) ==
    IF ~r.exists
    THEN r
    ELSE IF r.gameType = "quiz"
    THEN [r EXCEPT !.gameState = "playing",
                   !.questions = NumQuestions,
                   !.questionSet = 0,
                   !.currentQuestion = 0,
                   !.answers = <<>>]
    ELSE IF Len(activePlayers(r)) = 0
    THEN r
    ELSE [r EXCEPT !.gameState = "playing",
                   !.board = EmptyBoard,
                   !.currentTurn = activePlayers(r)[1].user,
                   !.winner = NULL]

\* what startGame emits
emitGameStarted(r) ==
    IF ~r.exists THEN <<>>
    ELSE IF r.gameType = "quiz"
    THEN <<ToRoom("game-started", [currentQuestion |-> 0]),
           ToRoom("room-updated", startGame(r).gameState)>>
    ELSE IF Len(activePlayers(r)) = 0
    THEN <<ToRoom("error", "Failed to start game. Please try again.")>>
    ELSE <<ToRoom("game-started", [board |-> EmptyBoard,
                                   currentTurn |-> activePlayers(r)[1].user]),
           ToRoom("room-updated", startGame(r).gameState)>>

\* startGame of a quiz room whose generateQuizQuestions returns selection s
withQuestions(r, s) ==
    IF r.exists /\ r.gameType = "quiz" THEN [r EXCEPT !.questionSet = s] ELSE r

\* the setInterval callback of startCountdown: broadcast the count, decrement it,
\* and at 0 clear the interval and run startGame, whose generateQuizQuestions
\* returns selection s
TickWith(s) ==
    /\ countdown > 0
    /\ countdown' = countdown - 1
    /\ IF countdown - 1 <= 0
       THEN /\ games < MaxGames
            /\ room' = withQuestions(startGame(room), s)
            /\ games' = IF room' # room THEN games + 1 ELSE games
            /\ hist' = IF room'.exists /\ room'.gameState = "playing"
                       THEN [NoHistory EXCEPT !.disconnected = hist.disconnected]
                       ELSE hist
            /\ last' = Step("tick", NULL, "expired",
                            <<ToRoom("countdown-update", countdown)>> \o emitGameStarted(room),
                            NoUpdate)
            /\ IF room.exists /\ room.gameType = "quiz"
               THEN /\ timers' = addRoomTimer(clearRoomTimers(timers), "first", -1)
                    /\ tasks' = cancelled(tasks)
               ELSE UNCHANGED <<timers, tasks>>
       ELSE /\ last' = Step("tick", NULL, "tick",
                            <<ToRoom("countdown-update", countdown)>>, NoUpdate)
            /\ UNCHANGED <<room, games, hist, timers, tasks>>
    /\ UNCHANGED <<moveRead1, writes, events>>

\* the callback in a room whose questions, if any, are selection 0
Tick == TickWith(0)

\* socket.on('toggle-ready')
ToggleReady(u) ==
    /\ events < MaxEvents
    /\ events' = events + 1
    /\ room.exists
    /\ findIndex(room.players, u) >= 0
    /\ LET i == findIndex(room.players, u) + 1
           updatedRoom == [room EXCEPT !.players[i].isReady = ~room.players[i].isReady]
           toggled == ToRoom("player-ready-toggled", updatedRoom.players[i].isReady)
       IN  /\ room' = updatedRoom
           /\ IF allReady(activePlayers(updatedRoom))
              THEN /\ countdown' = startCountdown(updatedRoom, countdown)
                   /\ timers' = clearRoomTimers(timers)
                   /\ tasks' = cancelled(tasks)
                   /\ last' = Step("toggle-ready", u, "armed", <<toggled>>, NoUpdate)
              ELSE /\ countdown' = countdown
                   /\ UNCHANGED <<timers, tasks>>
                   /\ last' = Step("toggle-ready", u, "not-ready",
                                   <<toggled, ToRoom("countdown-cancelled", "")>>, NoUpdate)
    /\ UNCHANGED <<moveRead1, writes, games, hist>>

\* router.post('/join/:code'): push the player, then checkAndStartCountdown
JoinHttp(u) ==
    /\ room.exists
    /\ room.gameState = "waiting"
    /\ Len(room.players) < maxPlayers(room)
    /\ findIndex(room.players, u) = -1
    /\ LET updatedRoom == [room EXCEPT !.players = Append(@, NewPlayer(u))] IN
       /\ room' = updatedRoom
       /\ countdown' = checkAndStartCountdown(updatedRoom, countdown)
       /\ timers' = IF countdownStarts(updatedRoom) THEN clearRoomTimers(timers) ELSE timers
       /\ tasks' = IF countdownStarts(updatedRoom) THEN cancelled(tasks) ELSE tasks
       /\ last' = Step("join-http", u, "joined",
                       <<ToRoom("room-updated", Len(updatedRoom.players))>>, NoUpdate)
    /\ UNCHANGED <<moveRead1, writes, games, events, hist>>

\* socket.on('join-room') of a member: send the room, then checkAndStartCountdown
JoinRoom(u) ==
    /\ events < MaxEvents
    /\ events' = events + 1
    /\ room.exists
    /\ findIndex(room.players, u) >= 0
    /\ countdown' = checkAndStartCountdown(room, countdown)
    /\ timers' = IF countdownStarts(room) THEN clearRoomTimers(timers) ELSE timers
    /\ tasks' = IF countdownStarts(room) THEN cancelled(tasks) ELSE tasks
    /\ last' = Step("join-room", u, "joined",
                    <<ToOthers("player-socket-connected", u)>>, NoUpdate)
    /\ UNCHANGED <<room, moveRead1, writes, games, hist>>

\* socket.on('leave-room'): pull the player; delete the room when it is empty,
\* else hand the host role to the first remaining player when the host left
LeaveRoom(u) ==
    /\ events < MaxEvents
    /\ events' = events + 1
    /\ room.exists
    /\ LET np == RemoveUser(room.players, u) IN
       /\ ScoreIndexInRange(np)
       /\ IF Len(np) = 0
          THEN /\ room' = DeletedRoom
               /\ last' = Step("leave-room", u, "destroyed",
                               <<ToRoom("room-destroyed", "")>>, NoUpdate)
          ELSE /\ room' = [room EXCEPT !.players = np,
                                       !.host = IF room.host = u THEN np[1].user ELSE @]
               /\ last' = Step("leave-room", u, "left",
                               <<ToRoom("room-updated", Len(np))>>, NoUpdate)
    /\ UNCHANGED <<countdown, moveRead1, writes, games, hist, timers, tasks>>

\* a restart that resets the game data and the ready flags but keeps the scores
restartKeepsScores(r) ==
    [r EXCEPT !.gameState = "waiting",
              !.board = EmptyBoard,
              !.currentTurn = NULL,
              !.winner = NULL,
              !.currentQuestion = 0,
              !.questions = 0,
              !.questionSet = 0,
              !.answers = <<>>,
              !.players = [i \in 1..Len(r.players) |->
                              [r.players[i] EXCEPT !.isReady = FALSE]]]

\* the document restart-game saves: waiting, the initial game data, every player
\* unready with score 0
restartGame(r) ==
    [r EXCEPT !.gameState = "waiting",
              !.board = EmptyBoard,
              !.currentTurn = NULL,
              !.winner = NULL,
              !.currentQuestion = 0,
              !.questions = 0,
              !.questionSet = 0,
              !.answers = <<>>,
              !.players = [i \in 1..Len(r.players) |->
                              [r.players[i] EXCEPT !.isReady = FALSE, !.score = 0]]]

\* socket.on('restart-game'): back to waiting with empty game data, every player
\* unready with score 0
RestartGame(u) ==
    /\ events < MaxEvents
    /\ events' = events + 1
    /\ room.exists
    /\ room' = restartGame(room)
    /\ last' = Step("restart-game", u, "reset",
                    <<ToRoom("game-reset", "waiting"), ToRoom("room-updated", "waiting")>>,
                    NoUpdate)
    /\ hist' = NoHistory
    /\ UNCHANGED <<countdown, moveRead1, writes, games, timers, tasks>>

----------------------------------------------------------------------------
(* Quiz engine *)

\* stands for undefined, the value of a property the document read from the store
\* does not have; it equals no question index
UNDEF == -1

\* option indices a client sends
Options == {0}
\* question indices a client sends
QuizIndices == {0}

\* the selections generateQuizQuestions can return
QuizSets == {0, 1}

\* generateQuizQuestions: selection s holds the questions s * NumQuestions + q of
\* the pool; question stands for the text and the options of a question
generateQuizQuestions(s) ==
    [q \in 0..(NumQuestions - 1) |->
        [question |-> s * NumQuestions + q,
         correctAnswer |-> (s * NumQuestions + q) % 2,
         timeLimit |-> TimeLimit]]

\* the questions of selection 0
QuizQuestions == generateQuizQuestions(0)

\* room.gameData.questions[q]
questionAt(r, q) == generateQuizQuestions(r.questionSet)[q]

\* elapsed seconds a client declares in its move; UNDEF when it declares none
DeclaredTimes == {0, 30}

\* an answer whose timeAnswered is the elapsed time the client declared
NewAnswerDeclared(u, q, ans, declared) ==
    [player |-> u, questionIndex |-> q, answer |-> ans,
     timeAnswered |-> IF declared = UNDEF THEN DefaultTimeAnswered ELSE declared,
     round |-> q, declared |-> declared]

\* the answer handleQuizMove pushes onto the answers it read: the room it read has
\* no questionSentAt, so timeAnswered is 20; round and declared are history, read
\* by no handler: the question index the answer was submitted for and the elapsed
\* time the client declared
NewAnswer(u, q, ans, declared) ==
    [player |-> u, questionIndex |-> q, answer |-> ans,
     timeAnswered |-> DefaultTimeAnswered, round |-> q, declared |-> declared]

\* an element of gameData.answers under a schema with a questionIndex path
keepAnswer(a) == a

\* an element of gameData.answers as the schema keeps it: player, answer and
\* timeAnswered; the schema has no questionIndex path
castAnswer(a) == [a EXCEPT !.questionIndex = UNDEF]

castAnswers(as) == [i \in 1..Len(as) |-> castAnswer(as[i])]

\* answers.filter(a => a.questionIndex === questionIndex)
answersFor(as, q) == SelectSeq(as, LAMBDA a : a.questionIndex = q)

\* answers.find(a => a.player === userId && a.questionIndex === questionIndex)
existingAnswer(as, u, q) ==
    \E i \in 1..Len(as) : as[i].player = u /\ as[i].questionIndex = q

\* points of one answer to question q
pointsFor(a, question) ==
    IF a.answer = question.correctAnswer
    THEN QuestionPoints + (IF a.timeAnswered <= SpeedLimit THEN SpeedBonus ELSE 0)
    ELSE 0

\* points the answers as[i..] give to user u
RECURSIVE pointsOf(_, _, _, _)
pointsOf(as, u, question, i) ==
    IF i > Len(as) THEN 0
    ELSE (IF as[i].player = u THEN pointsFor(as[i], question) ELSE 0)
         + pointsOf(as, u, question, i + 1)

\* answers.forEach of processQuizQuestion: every answer adds its points to the
\* score of the player who gave it
scoreRound(ps, as, question) ==
    [i \in 1..Len(ps) |-> [ps[i] EXCEPT !.score = @ + pointsOf(as, ps[i].user, question, 1)]]

scores(ps) == [i \in 1..Len(ps) |-> [userId |-> ps[i].user, score |-> ps[i].score]]

\* a call of processQuizQuestion suspended at its findById
ProcessTask(q, auto, fromTimer) ==
    [fn |-> "process", q |-> q, auto |-> auto, fromTimer |-> fromTimer, stale |-> FALSE,
     user |-> NULL, answer |-> 0, declared |-> UNDEF, snapshot |-> <<>>, nActive |-> 0,
     ended |-> FALSE]

\* a call of processQuizQuestion suspended at its room.save()
ScheduleTask(k, ended) == [k EXCEPT !.fn = "schedule", !.ended = ended]

\* a call of handleQuizMove suspended at its findByIdAndUpdate, with the answers
\* and the number of active players of the room it read
AnswerTask(u, q, ans, declared, snapshot, nActive) ==
    [fn |-> "answer", q |-> q, auto |-> FALSE, fromTimer |-> FALSE, stale |-> FALSE,
     user |-> u, answer |-> ans, declared |-> declared, snapshot |-> snapshot,
     nActive |-> nActive, ended |-> FALSE]

\* what endQuizGame saves
endQuizGame(r) == IF r.exists THEN [r EXCEPT !.gameState = "finished"] ELSE r

\* an answer key taken from selection 0 whatever the room holds
summaryOfFirstSelection(r) ==
    [i \in 1..r.questions |->
        [question |-> QuizQuestions[i - 1].question,
         correctAnswer |-> QuizQuestions[i - 1].correctAnswer]]

\* summaryDetails of endQuizGame: question, options and correctAnswer of every
\* stored question
summaryDetails(r) ==
    [i \in 1..r.questions |->
        [question |-> questionAt(r, i - 1).question,
         correctAnswer |-> questionAt(r, i - 1).correctAnswer]]

\* what endQuizGame emits
emitGameEnded(r) ==
    IF r.exists
    THEN <<ToRoom("game-ended", [finalScores |-> scores(r.players),
                                 summaryDetails |-> summaryDetails(r)])>>
    ELSE <<>>

\* the question-skipped notice of processQuizQuestion
emitSkipped(r, k) ==
    IF k.auto /\ Len(answersFor(r.answers, k.q)) < Len(activePlayers(r))
    THEN <<ToRoom("question-skipped",
                  [questionIndex |-> k.q,
                   answered |-> Len(answersFor(r.answers, k.q)),
                   active |-> Len(activePlayers(r))])>>
    ELSE <<>>

\* the quiz-results event of processQuizQuestion
emitResults(r, k) ==
    <<ToRoom("quiz-results",
             [questionIndex |-> k.q,
              correctAnswer |-> questionAt(r, k.q).correctAnswer,
              scores |-> scores(scoreRound(r.players, answersFor(r.answers, k.q),
                                           questionAt(r, k.q)))])>>

\* startQuizQuestion, run by the first-question, next-question or retry timer;
\* with observed set, the question it issues is added to the history
StartQuestion(t, observed) ==
    /\ BagIn(t, timers)
    /\ t.kind \in {"first", "next", "retry"}
    /\ LET rest == timers (-) SetToBag({t}) IN
       IF ~room.exists \/ room.gameState # "playing"
       THEN /\ timers' = rest
            /\ last' = Step("start-question", NULL, "not-playing", <<>>, NoUpdate)
            /\ UNCHANGED <<room, countdown, tasks, hist>>
       ELSE IF room.currentQuestion >= room.questions
       THEN /\ room' = endQuizGame(room)
            /\ timers' = clearRoomTimers(rest)
            /\ countdown' = 0
            /\ tasks' = cancelled(tasks)
            /\ last' = Step("start-question", NULL, "ended", emitGameEnded(room), NoUpdate)
            /\ UNCHANGED hist
       ELSE /\ timers' = addRoomTimer(clearRoomTimers(rest), "question", room.currentQuestion)
            /\ countdown' = 0
            /\ tasks' = cancelled(tasks)
            /\ hist' = IF observed
                       THEN [hist EXCEPT !.issued = @ \cup
                               {[round |-> room.currentQuestion,
                                 question |-> questionAt(room, room.currentQuestion)]}]
                       ELSE hist
            /\ last' = Step("start-question", NULL, "issued",
                            <<ToRoom("quiz-question",
                                     [question |-> questionAt(room, room.currentQuestion),
                                      questionIndex |-> room.currentQuestion,
                                      timeLimit |-> TimeLimit])>>,
                            NoUpdate)
            /\ UNCHANGED room
    /\ UNCHANGED <<moveRead1, writes, games, events>>

\* startQuizQuestion
StartQuizQuestion(t) == StartQuestion(t, FALSE)

\* startQuizQuestion whose issued questions are kept in the history
IssueQuizQuestion(t) == StartQuestion(t, TRUE)

\* startQuizQuestion whose room.save() rejects: the catch block skips the question
\* and retries with a timer it does not hand to addRoomTimer, or ends the game
FailStartQuestion(t) ==
    /\ events < MaxEvents
    /\ events' = events + 1
    /\ BagIn(t, timers)
    /\ t.kind \in {"first", "next", "retry"}
    /\ room.exists
    /\ room.gameState = "playing"
    /\ room.currentQuestion < room.questions
    /\ LET rest == timers (-) SetToBag({t}) IN
       IF room.currentQuestion < NumQuestions - 1
       THEN /\ room' = [room EXCEPT !.currentQuestion = @ + 1]
            /\ timers' = rest (+) SetToBag({Timer("retry", -1, FALSE)})
            /\ last' = Step("start-question", NULL, "retry", <<>>, NoUpdate)
            /\ UNCHANGED <<countdown, tasks>>
       ELSE /\ room' = endQuizGame(room)
            /\ timers' = clearRoomTimers(rest)
            /\ countdown' = 0
            /\ tasks' = cancelled(tasks)
            /\ last' = Step("start-question", NULL, "ended", emitGameEnded(room), NoUpdate)
    /\ UNCHANGED <<moveRead1, writes, games, hist>>

\* the 20 second timer of a question fires: its callback calls
\* processQuizQuestion(roomId, index, io, true), which awaits findById
QuestionTimeout(t) ==
    /\ BagIn(t, timers)
    /\ t.kind = "question"
    /\ BagCardinality(tasks) < MaxTasks
    /\ timers' = timers (-) SetToBag({t})
    /\ tasks' = tasks (+) SetToBag({ProcessTask(t.q, TRUE, TRUE)})
    /\ last' = Step("question-timeout", NULL, "fired", <<>>, NoUpdate)
    /\ UNCHANGED <<room, countdown, moveRead1, writes, games, events, hist>>

\* processQuizQuestion from the result of findById to its room.save(); when the
\* question is undefined the TypeError takes it to the catch block and endQuizGame
ProcessQuizQuestion(k) ==
    /\ BagIn(k, tasks)
    /\ k.fn = "process"
    /\ LET rest == tasks (-) SetToBag({k})
           outcome == IF k.stale THEN "after-cancel" ELSE "processed"
       IN
       IF ~room.exists
       THEN /\ tasks' = rest
            /\ last' = Step("process-question", NULL, "no-room", <<>>, NoUpdate)
            /\ UNCHANGED <<room, countdown, timers, hist>>
       ELSE /\ timers' = clearRoomTimers(timers)
            /\ countdown' = 0
            /\ IF k.q >= room.questions
               THEN /\ room' = endQuizGame(room)
                    /\ tasks' = cancelled(rest)
                    /\ last' = Step("process-question", NULL, outcome,
                                    emitSkipped(room, k) \o emitGameEnded(room), NoUpdate)
                    /\ UNCHANGED hist
               ELSE /\ hist' = [hist EXCEPT
                                  !.processed = @ \cup {k.q},
                                  !.scored = @ \cup
                                      {[round |-> k.q,
                                        correctAnswer |-> questionAt(room, k.q).correctAnswer]}]
                    /\ room' = [room EXCEPT
                                  !.players = scoreRound(@, answersFor(room.answers, k.q),
                                                         questionAt(room, k.q)),
                                  !.currentQuestion = @ + 1]
                    /\ tasks' = cancelled(rest) (+)
                                SetToBag({ScheduleTask(k, room.currentQuestion + 1 >= NumQuestions)})
                    /\ last' = Step("process-question", NULL, outcome,
                                    emitSkipped(room, k) \o emitResults(room, k), NoUpdate)
    /\ UNCHANGED <<moveRead1, writes, games, events>>

\* processQuizQuestion after its room.save(): the end-of-game or next-question
\* timer is created and handed to addRoomTimer
ScheduleNext(k) ==
    /\ BagIn(k, tasks)
    /\ k.fn = "schedule"
    /\ tasks' = tasks (-) SetToBag({k})
    /\ timers' = addRoomTimer(timers, IF k.ended THEN "end" ELSE "next", -1)
    /\ last' = Step("process-question", NULL, "scheduled", <<>>, NoUpdate)
    /\ UNCHANGED <<room, countdown, moveRead1, writes, games, events, hist>>

\* the end-of-game timer fires: endQuizGame
EndTimer(t) ==
    /\ BagIn(t, timers)
    /\ t.kind = "end"
    /\ room' = endQuizGame(room)
    /\ IF room.exists
       THEN /\ timers' = clearRoomTimers(timers (-) SetToBag({t}))
            /\ countdown' = 0
            /\ tasks' = cancelled(tasks)
       ELSE /\ timers' = timers (-) SetToBag({t})
            /\ UNCHANGED <<countdown, tasks>>
    /\ last' = Step("end-timer", NULL, "ended", emitGameEnded(room), NoUpdate)
    /\ UNCHANGED <<moveRead1, writes, games, events, hist>>

\* socket.on('game-move') on a quiz room and handleQuizMove up to its
\* findByIdAndUpdate: the duplicate check on the room just read
QuizMoveRead(u, q, ans, declared) ==
    /\ room.gameType \in {"quiz", ""}
    /\ Len(room.answers) < MaxAnswers
    /\ BagCardinality(tasks) < MaxTasks
    /\ IF ~room.exists
       THEN /\ last' = Step("quiz-answer", u, "rejected",
                            emitRejected(u, "Room not found"), NoUpdate)
            /\ UNCHANGED tasks
       ELSE IF room.gameState # "playing"
       THEN /\ last' = Step("quiz-answer", u, "rejected",
                            emitRejected(u, "Game is not in progress"), NoUpdate)
            /\ UNCHANGED tasks
       ELSE IF existingAnswer(room.answers, u, q)
       THEN /\ last' = Step("quiz-answer", u, "duplicate", <<>>, NoUpdate)
            /\ UNCHANGED tasks
       ELSE /\ last' = Step("quiz-answer", u, "read", <<>>, NoUpdate)
            /\ tasks' = tasks (+) SetToBag({AnswerTask(u, q, ans, declared, room.answers,
                                                       Len(activePlayers(room)))})
    /\ UNCHANGED <<room, countdown, moveRead1, writes, games, events, timers, hist>>

\* handleQuizMove from the completion of its findByIdAndUpdate: the answers it
\* read plus its own replace gameData.answers; when the answers it holds for the
\* question are as many as the active players it read, clearRoomTimers and
\* processQuizQuestion
QuizMoveWrite(k) ==
    /\ BagIn(k, tasks)
    /\ k.fn = "answer"
    /\ LET rest == tasks (-) SetToBag({k})
           answers == Append(k.snapshot, NewAnswer(k.user, k.q, k.answer, k.declared))
       IN
       /\ room' = IF room.exists THEN [room EXCEPT !.answers = castAnswers(answers)] ELSE room
       /\ IF Len(answersFor(answers, k.q)) = k.nActive
          THEN /\ timers' = clearRoomTimers(timers)
               /\ countdown' = 0
               /\ tasks' = cancelled(rest) (+) SetToBag({ProcessTask(k.q, FALSE, FALSE)})
               /\ last' = Step("quiz-answer", k.user, "all-answered", <<>>, NoUpdate)
          ELSE /\ tasks' = rest
               /\ last' = Step("quiz-answer", k.user, "recorded", <<>>, NoUpdate)
               /\ UNCHANGED <<timers, countdown>>
    /\ UNCHANGED <<moveRead1, writes, games, events, hist>>

\* the users whose socket has disconnected
Disconnected == {d.user : d \in hist.disconnected}

\* the round whose question is issued and not yet processed or timed out, UNDEF
\* when there is none
activeRound ==
    IF room.exists /\ room.gameState = "playing"
       /\ BagIn(Timer("question", room.currentQuestion, TRUE), timers)
    THEN room.currentQuestion
    ELSE UNDEF

\* a disconnect that takes the player out of the room, as leave-room does
DisconnectRemoves(u) ==
    /\ u \notin Disconnected
    /\ room.exists
    /\ hist' = [hist EXCEPT !.disconnected = @ \cup {[user |-> u, during |-> activeRound]}]
    /\ room' = [room EXCEPT !.players = RemoveUser(@, u)]
    /\ last' = Step("disconnect", u, "removed", <<ToOthers("player-disconnected", u)>>,
                    NoUpdate)
    /\ UNCHANGED <<countdown, timers, tasks, moveRead1, writes, games, events>>

\* socket.on('disconnect'): the player stays in room.players; in a running quiz
\* the round is processed when the answers of the current question are at least
\* as many as the other active players, and the game is ended when there is no
\* other active player
Disconnect(u) ==
    /\ u \notin Disconnected
    /\ BagCardinality(tasks) < MaxTasks
    /\ hist' = [hist EXCEPT !.disconnected = @ \cup {[user |-> u, during |-> activeRound]}]
    /\ IF ~(room.exists /\ findIndex(room.players, u) >= 0
            /\ room.gameState \in {"playing", "waiting"})
       THEN /\ last' = Step("disconnect", u, "no-room", <<>>, NoUpdate)
            /\ UNCHANGED <<room, countdown, timers, tasks>>
       ELSE LET others == SelectSeq(activePlayers(room), LAMBDA p : p.user # u)
                answersForQuestion == answersFor(room.answers, room.currentQuestion)
                notice == <<ToOthers("player-disconnected", u)>>
            IN
            IF ~(room.gameType = "quiz" /\ room.gameState = "playing")
            THEN /\ last' = Step("disconnect", u, "noticed", notice, NoUpdate)
                 /\ UNCHANGED <<room, countdown, timers, tasks>>
            ELSE IF Len(answersForQuestion) >= Len(others) /\ Len(others) > 0
            THEN /\ timers' = clearRoomTimers(timers)
                 /\ countdown' = 0
                 /\ tasks' = cancelled(tasks) (+)
                             SetToBag({ProcessTask(room.currentQuestion, FALSE, FALSE)})
                 /\ last' = Step("disconnect", u, "processing", notice, NoUpdate)
                 /\ UNCHANGED room
            ELSE IF Len(others) = 0
            THEN /\ room' = endQuizGame(room)
                 /\ timers' = clearRoomTimers(timers)
                 /\ countdown' = 0
                 /\ tasks' = cancelled(tasks)
                 /\ last' = Step("disconnect", u, "ended",
                                 emitGameEnded(room) \o notice, NoUpdate)
            ELSE /\ last' = Step("disconnect", u, "waiting-for-others", notice, NoUpdate)
                 /\ UNCHANGED <<room, countdown, timers, tasks>>
    /\ UNCHANGED <<moveRead1, writes, games, events>>

----------------------------------------------------------------------------
(* Specifications *)

\* the room as router.post('/create') leaves it
Init ==
    /\ room = NewRoom(Creator)
    /\ countdown = 0
    /\ moveRead1 = 0
    /\ writes = EmptyBag
    /\ games = 0
    /\ events = 0
    /\ timers = EmptyBag
    /\ tasks = EmptyBag
    /\ hist = NoHistory
    /\ last = Step("create", Creator, "created", <<>>, NoUpdate)

\* every handler, moves on the positions of RacePositions
Next ==
    \/ \E u \in Users : JoinHttp(u)
    \/ \E u \in Users : JoinRoom(u)
    \/ \E u \in Users : ToggleReady(u)
    \/ Tick
    \/ \E u \in Users : LeaveRoom(u)
    \/ \E u \in Users : RestartGame(u)
    \/ \E u \in Users : GameMoveRead(u, MaxInflight)
    \/ \E u \in Users, pos \in RacePositions : HandleTicTacToeMove(u, pos[1], pos[2])
    \/ \E w \in BagToSet(writes) : ApplyWrite(w)
    \/ \E w \in BagToSet(writes) : FailWrite(w)

Spec == Init /\ [][Next]_vars

\* a second player joins, the countdown starts the game and moves are made on
\* every position of FullPositions
NextFull ==
    \/ \E u \in Users : JoinHttp(u)
    \/ Tick
    \/ \E u \in Users : GameMoveRead(u, MaxInflightFull)
    \/ \E u \in Users, pos \in FullPositions : HandleTicTacToeMove(u, pos[1], pos[2])
    \/ \E w \in BagToSet(writes) : ApplyWrite(w)

SpecFull == Init /\ [][NextFull]_vars

\* a quiz room as router.post('/create') leaves it
InitQuiz ==
    /\ room = NewQuizRoom(Creator)
    /\ countdown = 0
    /\ moveRead1 = 0
    /\ writes = EmptyBag
    /\ games = 0
    /\ events = 0
    /\ timers = EmptyBag
    /\ tasks = EmptyBag
    /\ hist = NoHistory
    /\ last = Step("create", Creator, "created", <<>>, NoUpdate)

\* the handlers and timer callbacks of a quiz room
NextQuiz ==
    \/ \E u \in Users : JoinHttp(u)
    \/ Tick
    \/ \E u \in Users : LeaveRoom(u)
    \/ \E u \in Users : RestartGame(u)
    \/ \E t \in BagToSet(timers) : StartQuizQuestion(t)
    \/ \E t \in BagToSet(timers) : FailStartQuestion(t)
    \/ \E t \in BagToSet(timers) : QuestionTimeout(t)
    \/ \E t \in BagToSet(timers) : EndTimer(t)
    \/ \E k \in BagToSet(tasks) : ProcessQuizQuestion(k)
    \/ \E k \in BagToSet(tasks) : ScheduleNext(k)
    \/ \E u \in Users, q \in QuizIndices, ans \in Options : QuizMoveRead(u, q, ans, UNDEF)
    \/ \E k \in BagToSet(tasks) : QuizMoveWrite(k)

SpecQuiz == InitQuiz /\ [][NextQuiz]_vars

\* a quiz room whose players answer, leave and disconnect; a socket that has
\* disconnected sends nothing more
NextDisconnect ==
    \/ \E u \in Users : JoinHttp(u)
    \/ Tick
    \/ \E u \in Users : LeaveRoom(u)
    \/ \E u \in Users : Disconnect(u)
    \/ \E t \in BagToSet(timers) : StartQuizQuestion(t)
    \/ \E t \in BagToSet(timers) : QuestionTimeout(t)
    \/ \E t \in BagToSet(timers) : EndTimer(t)
    \/ \E k \in BagToSet(tasks) : ProcessQuizQuestion(k)
    \/ \E k \in BagToSet(tasks) : ScheduleNext(k)
    \/ \E u \in Users \ Disconnected, q \in QuizIndices, ans \in Options :
          QuizMoveRead(u, q, ans, UNDEF)
    \/ \E k \in BagToSet(tasks) : QuizMoveWrite(k)

SpecDisconnect == InitQuiz /\ [][NextDisconnect]_vars

\* a quiz game whose players declare an elapsed time in their answers
NextDeclared ==
    \/ \E u \in Users : JoinHttp(u)
    \/ Tick
    \/ \E t \in BagToSet(timers) : StartQuizQuestion(t)
    \/ \E t \in BagToSet(timers) : QuestionTimeout(t)
    \/ \E t \in BagToSet(timers) : EndTimer(t)
    \/ \E k \in BagToSet(tasks) : ProcessQuizQuestion(k)
    \/ \E k \in BagToSet(tasks) : ScheduleNext(k)
    \/ \E u \in Users, q \in QuizIndices, ans \in Options, declared \in DeclaredTimes :
          QuizMoveRead(u, q, ans, declared)
    \/ \E k \in BagToSet(tasks) : QuizMoveWrite(k)

SpecDeclared == InitQuiz /\ [][NextDeclared]_vars

\* readiness and countdown only; the interval callback keeps firing while its
\* interval is live
NextCountdown ==
    \/ \E u \in Users : JoinHttp(u)
    \/ \E u \in Users : JoinRoom(u)
    \/ \E u \in Users : ToggleReady(u)
    \/ Tick
    \/ \E u \in Users : LeaveRoom(u)

SpecCountdown == Init /\ [][NextCountdown]_vars /\ WF_vars(Tick)

----------------------------------------------------------------------------
(* Reference definitions used by the properties *)

Cells == Rows \X Cols

\* the 8 winning lines: 3 rows, 3 columns, 2 diagonals
Lines ==
    {{<<r, c>> : c \in Cols} : r \in Rows}
    \cup {{<<r, c>> : r \in Rows} : c \in Cols}
    \cup {{<<0, 0>>, <<1, 1>>, <<2, 2>>}, {<<0, 2>>, <<1, 1>>, <<2, 0>>}}

RefHasLine(b) == \E L \in Lines : \E m \in {"X", "O"} : \A p \in L : b[p[1]][p[2]] = m

RefFull(b) == \A p \in Cells : b[p[1]][p[2]] \in {"X", "O"}

\* X for the first active player in join order, O for the others
RefMark(r, u) == IF activePlayers(r)[1].user = u THEN "X" ELSE "O"

\* the active player after u in join order, wrapping around
RefNext(r, u) ==
    LET active == activePlayers(r)
        i == CHOOSE k \in 1..Len(active) : active[k].user = u
    IN  active[(i % Len(active)) + 1].user

Accepted == last.op = "game-move" /\ last.outcome = "accepted"
Rejected == last.op = "game-move" /\ last.outcome = "rejected"

\* the board an accepted move results in: the board the handler read, with the
\* acting player's mark on the chosen cell
BoardAfter == [room.board EXCEPT ![last.update.row][last.update.col] = RefMark(room, last.user)]

RoomBroadcasts(emits) == {i \in DOMAIN emits : emits[i].to \in {"room", "others"}}

AllReadyNow(r) == r.exists /\ allReady(activePlayers(r))

----------------------------------------------------------------------------
(* Properties *)

\* C1: a rejected submit-move leaves the room document unchanged (board, turn,
\* winner, game state, scores), issues no update, and emits one error to the
\* sender's own connection and nothing to the room
C1_RejectedMoveChangesNothing ==
    [][ (last'.op = "game-move" /\ last'.outcome = "rejected")
        => /\ room' = room
           /\ writes' = writes
           /\ Len(last'.emits) = 1
           /\ last'.emits[1].to = last'.user
           /\ last'.emits[1].event = "error"
           /\ RoomBroadcasts(last'.emits) = {} ]_vars

\* C1 witness: a move on an occupied cell has just been rejected
C1_Witness ==
    /\ Rejected
    /\ last.emits[1].data = "Invalid move - cell already occupied"
    /\ room.gameState = "playing"

\* C2: a cell that holds a mark keeps that mark until the game is reset
\* (restart-game or a new game start), also under concurrently handled moves
C2_MarkedCellKeepsMark ==
    [][ (room.exists /\ room'.exists /\ last'.op \notin {"restart-game", "tick"})
        => \A p \in Cells :
              room.board[p[1]][p[2]] # "" => room'.board[p[1]][p[2]] = room.board[p[1]][p[2]] ]_vars

\* C3: with two players in the room, the player whose move was accepted last
\* never has the next accepted move: accepted moves strictly alternate
C3_MovesAlternate ==
    [][ (last'.op = "game-move" /\ last'.outcome = "accepted" /\ Len(activePlayers(room)) = 2)
        => last'.user # hist.mover ]_vars

\* C4: in a two-player game that no toggle-ready, leave-room or restart-game has
\* touched, no move is accepted once an accepted move has ended the game, so the
\* winner is set at most once per game
C4_NoMoveAfterFinished ==
    [][ (/\ last'.op = "game-move"
         /\ last'.outcome = "accepted"
         /\ Len(activePlayers(room)) = 2
         /\ events = 0)
        => ~hist.over ]_vars

\* C5: an accepted move writes the acting player's mark (X for the first active
\* player in join order, O for the second); exactly when the resulting board has
\* one of the 8 lines it sets winner to the acting player, gameState to finished
\* and that player's score to 10 more than it was; and checkTicTacToeWinner
\* finds a winner on exactly the 3x3 boards that have a line (a fact about the
\* function alone, evaluated once, in the initial state)
C5_AcceptedMoveMarksAndWins ==
    /\ Accepted =>
         LET ops == last.update
             sent == last.emits[1].data
         IN  /\ ops.symbol = RefMark(room, last.user)
             /\ sent.board = BoardAfter
             /\ ops.setWinner <=> RefHasLine(BoardAfter)
             /\ RefHasLine(BoardAfter) =>
                   /\ ops.winner = last.user
                   /\ ops.gameState = "finished"
                   /\ sent.winner = last.user
                   /\ sent.gameState = "finished"
                   /\ room.players[ops.idx + 1].user = last.user
                   /\ ops.score = room.players[ops.idx + 1].score + 10
    /\ last.op = "create" =>
         \A b \in AllBoards : (checkTicTacToeWinner(b) # "") <=> RefHasLine(b)

\* C5 witness: the second player has just completed a line with O
C5_Witness ==
    /\ Accepted
    /\ last.update.setWinner
    /\ last.update.symbol = "O"
    /\ last.update.score = 10

\* C6: an accepted move that completes no line ends the game as a draw
\* (finished, no winner, no score) exactly when the board is then full;
\* otherwise the game stays playing and the turn passes to the next active
\* player in join order, wrapping around
C6_DrawOrNextTurn ==
    (Accepted /\ ~RefHasLine(BoardAfter)) =>
        LET ops == last.update
            sent == last.emits[1].data
        IN  /\ ~ops.setWinner
            /\ IF RefFull(BoardAfter)
               THEN /\ ops.gameState = "finished"
                    /\ sent.gameState = "finished"
                    /\ sent.winner = NULL
               ELSE /\ ops.gameState = "playing"
                    /\ sent.gameState = "playing"
                    /\ ops.currentTurn = RefNext(room, last.user)
                    /\ sent.currentTurn = RefNext(room, last.user)

\* C6 witness: the ninth move has just filled the board without a line
C6_Witness ==
    /\ Accepted
    /\ RefFull(BoardAfter)
    /\ ~RefHasLine(BoardAfter)
    /\ last.update.gameState = "finished"

\* C7: while the game is playing, currentTurn references a current,
\* non-spectator member of the room
C7_TurnIsActiveMember ==
    (room.exists /\ room.gameState = "playing")
        => \E i \in 1..Len(room.players) :
              room.players[i].user = room.currentTurn /\ ~room.players[i].isSpectator

\* C8: every accepted move emits exactly one game-updated broadcast to the room
\* and issues exactly one update; updates are issued by accepted moves only, so
\* an update completes only after its broadcast
C8_OneBroadcastOneWrite ==
    [][ /\ (last'.op = "game-move" /\ last'.outcome = "accepted")
           => /\ Len(last'.emits) = 1
              /\ last'.emits[1].to = "room"
              /\ last'.emits[1].event = "game-updated"
              /\ writes' = writes (+) SetToBag({last'.update})
        /\ BagCardinality(writes') > BagCardinality(writes)
           => (last'.op = "game-move" /\ last'.outcome = "accepted")
        /\ last'.op = "write"
           => BagCardinality(writes') = BagCardinality(writes) - 1 ]_vars

\* C8 witness: a move has been accepted and its update is still running
C8_Witness == Accepted /\ BagIn(last.update, writes)

\* C9: whenever a countdown is running, every non-spectator player is ready
C9_CountdownOnlyWhenAllReady ==
    (countdown > 0 /\ room.exists) => allReady(activePlayers(room))

\* C10: a ready toggle or a departure that makes the all-ready condition false
\* while a countdown is running cancels the countdown
C10_NotReadyCancelsCountdown ==
    [][ (/\ countdown > 0
         /\ last'.op \in {"toggle-ready", "leave-room"}
         /\ AllReadyNow(room)
         /\ ~AllReadyNow(room'))
        => countdown' = 0 ]_vars

\* C11: no countdown runs while the room has fewer than 2 active players
C11_NoCountdownBelowTwoPlayers ==
    (room.exists /\ countdown > 0) => Len(activePlayers(room)) >= 2

\* C12: a join (HTTP or join-room) or a ready toggle that leaves all players
\* ready, arriving while the countdown is running, does not reset it: the
\* remaining count is what it was
C12_JoinKeepsCountdown ==
    [][ (/\ countdown > 0
         /\ \/ last'.op \in {"join-http", "join-room"}
            \/ last'.op = "toggle-ready" /\ AllReadyNow(room'))
        => countdown' = countdown ]_vars

\* C13: a countdown expiry changes gameState only from waiting (to playing): no
\* timer callback moves a room from finished to playing
C13_GameStateTransitions ==
    [][ (/\ last'.op = "tick"
         /\ room.exists
         /\ room'.exists
         /\ room'.gameState # room.gameState)
        => room.gameState = "waiting" /\ room'.gameState = "playing" ]_vars

\* C14: every tick broadcasts the remaining count and lowers it by one; the tick
\* that reaches 0 leaves an existing room playing with an empty board, no winner
\* and the turn with the first joined active player; and a running countdown
\* reaches 0 (within the game starts followed)
C14_CountdownStartsGame ==
    /\ [][ last'.op = "tick"
           => /\ last'.emits[1] = ToRoom("countdown-update", countdown)
              /\ countdown' = countdown - 1
              /\ (countdown' = 0 /\ room.exists)
                 => /\ room'.gameState = "playing"
                    /\ room'.board = EmptyBoard
                    /\ room'.winner = NULL
                    /\ room'.currentTurn = activePlayers(room)[1].user
                    /\ room'.players = room.players ]_vars
    /\ (countdown > 0 /\ games < MaxGames) ~> (countdown = 0)

\* C14 witness: the countdown of a room with two ready players has just expired
C14_Witness ==
    /\ last.op = "tick"
    /\ last.outcome = "expired"
    /\ Len(activePlayers(room)) = 2
    /\ allReady(activePlayers(room))
    /\ room.gameState = "playing"
    /\ room.currentTurn = Creator

\* the steps run by a callback of a quiz timer or by a call it made
QuizTimerSteps == {"start-question", "question-timeout", "process-question", "end-timer"}

ResultsIndices(emits) ==
    {emits[i].data.questionIndex : i \in {j \in DOMAIN emits : emits[j].event = "quiz-results"}}

\* C15: a call made by a timer callback before clearRoomTimers, still suspended
\* at its await when clearRoomTimers ran, has no effect on a running game
\* afterwards: it neither changes the room nor emits
C15_CancelledCallbackHasNoEffect ==
    [][ (/\ last'.op = "process-question"
         /\ last'.outcome = "after-cancel"
         /\ room.gameState = "playing")
        => room' = room /\ last'.emits = <<>> ]_vars

\* C16: every pending timer created for the room is in roomTimers
C16_PendingTimersRegistered ==
    \A t \in BagToSet(timers) : t.reg

\* C17: while the room is waiting (a quiz room is waiting only before its first
\* game and after restart-game) or deleted, no quiz timer callback changes the
\* room or emits
C17_NoTimerEffectAfterReset ==
    [][ (/\ ~room.exists \/ room.gameState = "waiting"
         /\ last'.op \in QuizTimerSteps
         /\ last'.outcome # "scheduled")
        => room' = room /\ last'.emits = <<>> ]_vars

\* C18: roomTimers holds at most one pending timer of the room (the countdown
\* interval included)
C18_AtMostOnePendingTimer ==
    BagCardinality(timers (-) clearRoomTimers(timers)) + (IF countdown > 0 THEN 1 ELSE 0) <= 1

\* C19: no round is processed twice in one game: a processing step emits the
\* results of a round whose results have not been emitted before
C19_RoundProcessedOnce ==
    [][ last'.op = "process-question"
        => \A q \in ResultsIndices(last'.emits) : q \notin hist.processed ]_vars

\* C20: gameData.answers holds at most one answer per player and round
C20_OneAnswerPerPlayerAndRound ==
    \A i, j \in 1..Len(room.answers) :
        (room.answers[i].player = room.answers[j].player
         /\ room.answers[i].round = room.answers[j].round) => i = j

\* the question of the current round has been issued and its timeout is pending
QuestionActive ==
    room.exists /\ room.gameState = "playing"
    /\ BagIn(Timer("question", room.currentQuestion, TRUE), timers)

\* the answers of the list as that were submitted for round q
SubmittedFor(as, q) == {i \in 1..Len(as) : as[i].round = q}

\* a step in which handleQuizMove stored its answer
AnswerStored == last'.op = "quiz-answer" /\ last'.outcome \in {"recorded", "all-answered"}

\* C21: an answer is stored only while the question of the current round is
\* active, and only for the current round
C21_AnswerOnlyForActiveRound ==
    [][ (AnswerStored /\ room.exists)
        => /\ QuestionActive
           /\ room'.answers[Len(room'.answers)].round = room.currentQuestion ]_vars

\* C22: storing an answer loses no answer that was already stored
C22_ConcurrentAnswersAllRecorded ==
    [][ (AnswerStored /\ room.exists /\ QuestionActive)
        => \A i \in 1..Len(room.answers) :
              \E j \in 1..Len(room'.answers) : room'.answers[j] = room.answers[i] ]_vars

\* C23: with two or more active players, the submission that completes the
\* answers of the active players for the current round starts the processing of
\* the round
C23_AllAnsweredProcessesImmediately ==
    [][ (AnswerStored /\ QuestionActive /\ room' # room /\ Len(activePlayers(room)) >= 2
         /\ \A i \in 1..Len(activePlayers(room')) :
               \E j \in SubmittedFor(room'.answers, room'.currentQuestion) :
                  room'.answers[j].player = activePlayers(room')[i].user)
        => last'.outcome = "all-answered" ]_vars

\* a step of processQuizQuestion that emitted the results of round q
ResultsStep(q) == last'.op = "process-question" /\ q \in ResultsIndices(last'.emits)

\* what an answer is worth: 10 for the correct option, 5 more within 5 seconds
RefPoints(a, q) ==
    IF a.answer = QuizQuestions[q].correctAnswer
    THEN QuestionPoints + (IF a.timeAnswered <= SpeedLimit THEN SpeedBonus ELSE 0)
    ELSE 0

\* C26: when a round is processed, a player with one recorded answer for the
\* round gains the points of that answer, and a player with none gains nothing
C26_RoundScoring ==
    [][ \A q \in 0..(NumQuestions - 1) :
          (ResultsStep(q) /\ room.gameState = "playing")
          => \A i \in 1..Len(room.players) :
                LET mine == {j \in SubmittedFor(room.answers, q) :
                                room.answers[j].player = room.players[i].user}
                IN  /\ mine = {} => room'.players[i].score = room.players[i].score
                    /\ \A j \in mine :
                          Cardinality(mine) = 1
                          => room'.players[i].score =
                                room.players[i].score + RefPoints(room.answers[j], q) ]_vars

\* the question-skipped notices of a step
SkippedNotices(emits) == {emits[i].data : i \in {j \in DOMAIN emits : emits[j].event = "question-skipped"}}

\* C29: a question-skipped notice of a round states the number of answers
\* recorded for the round, and that number is below the number of active players
C29_SkippedNoticeStatesShortfall ==
    [][ (last'.op = "process-question" /\ room.exists /\ room.gameState = "playing")
        => \A n \in SkippedNotices(last'.emits) :
              /\ n.answered = Cardinality(SubmittedFor(room.answers, n.questionIndex))
              /\ n.answered < Len(activePlayers(room)) ]_vars

\* the question indices of the quiz-question events of a step
IssuedIndices(emits) ==
    {emits[i].data.questionIndex : i \in {j \in DOMAIN emits : emits[j].event = "quiz-question"}}

\* C30: a question is issued for round q only after the rounds 0..q-1 have been
\* processed, and not after round q itself has been processed
C30_RoundsIssuedInOrder ==
    [][ last'.op = "start-question"
        => \A q \in IssuedIndices(last'.emits) :
              /\ \A r \in 0..(q - 1) : r \in hist.processed
              /\ q \notin hist.processed ]_vars

\* C28: the quiz-question event does not carry the correct-answer index of its
\* question
C28_QuestionOmitsCorrectAnswer ==
    \A i \in DOMAIN last.emits :
        last.emits[i].event = "quiz-question"
        => "correctAnswer" \notin DOMAIN last.emits[i].data.question

\* the active players whose socket is connected
ConnectedActive(r) == SelectSeq(activePlayers(r), LAMBDA p : p.user \notin Disconnected)

\* every player of the sequence ps has an answer submitted for round q in the list as
AllAnswered(ps, as, q) ==
    \A i \in 1..Len(ps) : \E j \in SubmittedFor(as, q) : as[j].player = ps[i].user

\* C24: after a disconnection during an active question, the submission that
\* completes the answers of the connected active players starts the processing of
\* the round
C24_LastConnectedAnswerProcesses ==
    [][ (AnswerStored /\ QuestionActive /\ room' # room
         /\ \E d \in hist.disconnected :
               /\ d.during = room.currentQuestion
               /\ \E i \in 1..Len(activePlayers(room)) : activePlayers(room)[i].user = d.user
         /\ AllAnswered(ConnectedActive(room'), room'.answers, room'.currentQuestion))
        => last'.outcome = "all-answered" ]_vars

\* the active players other than u
RemainingActive(r, u) == SelectSeq(activePlayers(r), LAMBDA p : p.user # u)

C27_DeclaredTimeNotTrusted ==
    \A i \in 1..Len(room.answers) : room.answers[i].timeAnswered = DefaultTimeAnswered

\* a round is processed with a recorded answer whose client declared an elapsed
\* time within the speed limit and whose timeAnswered is the server's, next to an
\* answer whose client declared 30 seconds
C27_Witness ==
    /\ last.op = "process-question"
    /\ \E i, j \in 1..Len(room.answers) :
          /\ room.answers[i].player # room.answers[j].player
          /\ room.answers[i].declared = 0
          /\ room.answers[j].declared = 30
          /\ room.answers[i].timeAnswered = room.answers[j].timeAnswered
          /\ room.answers[i].round \in ResultsIndices(last.emits)
          /\ room.answers[j].round \in ResultsIndices(last.emits)

\* C38: an answer read back from the store carries the round index it was
\* submitted for
C38_StoredAnswerKeepsRound ==
    \A i \in 1..Len(room.answers) : room.answers[i].questionIndex = room.answers[i].round

\* handlers a client invokes on a room
RoomActions == {"toggle-ready", "game-move", "quiz-answer", "restart-game", "leave-room"}

\* C35: a room action of a user who is not in the players list leaves the room
\* and its countdown unchanged
C35_NonMemberActionHasNoEffect ==
    [][ (last'.op \in RoomActions /\ room.exists /\ last'.user # NULL
         /\ findIndex(room.players, last'.user) = -1)
        => room' = room /\ countdown' = countdown ]_vars

\* C39: while a game is playing, no ready toggle, join or countdown expiry clears
\* the board, changes the question set or the round index, or discards answers
C39_NoInitializationWhilePlaying ==
    [][ (last'.op \in {"toggle-ready", "join-http", "join-room", "tick"}
         /\ room.exists /\ room.gameState = "playing")
        => /\ room'.board = room.board
           /\ room'.questions = room.questions
           /\ room'.currentQuestion = room.currentQuestion
           /\ room'.answers = room.answers ]_vars

\* events of the quiz engine that belong to a running game
QuizGameEvents == {"quiz-question", "quiz-results", "game-ended"}

\* C40: in a finished quiz room, a step other than restart-game changes no score
\* and emits no quiz-question, quiz-results or game-ended event
C40_FinishedQuizIsQuiet ==
    [][ (room.exists /\ room.gameType = "quiz" /\ room.gameState = "finished"
         /\ last'.op # "restart-game" /\ room'.exists)
        => /\ \A i \in 1..Len(room.players) :
                 \A j \in 1..Len(room'.players) :
                    room'.players[j].user = room.players[i].user
                    => room'.players[j].score = room.players[i].score
           /\ \A i \in DOMAIN last'.emits : last'.emits[i].event \notin QuizGameEvents ]_vars

\* C37: restart-game on a playing or finished room leaves it waiting with the
\* initial game data, every player unready with score 0, and the same players
\* and host
C37_RestartResetsRoom ==
    [][ (last'.op = "restart-game" /\ room.gameState \in {"playing", "finished"})
        => /\ room'.gameState = "waiting"
           /\ room'.board = EmptyBoard
           /\ room'.currentTurn = NULL
           /\ room'.winner = NULL
           /\ room'.currentQuestion = 0
           /\ room'.questions = 0
           /\ room'.answers = <<>>
           /\ Len(room'.players) = Len(room.players)
           /\ \A i \in 1..Len(room.players) :
                 /\ room'.players[i].user = room.players[i].user
                 /\ room'.players[i].isReady = FALSE
                 /\ room'.players[i].score = 0
           /\ room'.host = room.host ]_vars

\* the first client event of a room whose game was started is restart-game
C37_Witness ==
    /\ last.op = "restart-game"
    /\ games >= 1
    /\ events = 1
    /\ room.gameState = "waiting"
    /\ Len(room.players) = 2

----------------------------------------------------------------------------
(* Reconnection *)

\* io.on('connection') followed by join-room of a user whose socket had
\* disconnected: the room is sent to the new socket, the others are told, then
\* checkAndStartCountdown; a user who is no player gets an error
Reconnect(u) ==
    /\ u \in Disconnected
    /\ room.exists
    /\ hist' = [hist EXCEPT !.disconnected = {d \in @ : d.user # u}]
    /\ IF findIndex(room.players, u) = -1
       THEN /\ last' = Step("join-room", u, "not-member",
                            <<ToSender(u, "You are not a member of this room")>>, NoUpdate)
            /\ UNCHANGED <<countdown, timers, tasks>>
       ELSE /\ countdown' = checkAndStartCountdown(room, countdown)
            /\ timers' = IF countdownStarts(room) THEN clearRoomTimers(timers) ELSE timers
            /\ tasks' = IF countdownStarts(room) THEN cancelled(tasks) ELSE tasks
            /\ last' = Step("join-room", u, "reconnected",
                            <<ToOthers("player-socket-connected", u)>>, NoUpdate)
    /\ UNCHANGED <<room, moveRead1, writes, games, events>>

\* readiness, countdown and game start in a room whose sockets disconnect and
\* reconnect; a socket that has disconnected sends nothing
NextReconnect ==
    \/ \E u \in Users : JoinHttp(u)
    \/ \E u \in Users \ Disconnected : JoinRoom(u)
    \/ \E u \in Users \ Disconnected : ToggleReady(u)
    \/ Tick
    \/ \E u \in Users \ Disconnected : LeaveRoom(u)
    \/ \E u \in Users : Disconnect(u)
    \/ \E u \in Users : Reconnect(u)

SpecReconnect == Init /\ [][NextReconnect]_vars

\* the players entry of user u in room r
EntryOf(r, u) == r.players[findIndex(r.players, u) + 1]

\* C33: a disconnect leaves the players list as it is, and from the disconnect
\* of a player up to and including the reconnection the player stays in the
\* list with the same ready flag and score
C33_DisconnectKeepsPlayer ==
    [][ /\ (last'.op = "disconnect" /\ room.exists) => room'.players = room.players
        /\ \A u \in Users :
              (/\ room.exists
               /\ findIndex(room.players, u) >= 0
               /\ \/ u \in Disconnected
                  \/ last'.op = "disconnect" /\ last'.user = u)
              => /\ room'.exists
                 /\ findIndex(room'.players, u) >= 0
                 /\ EntryOf(room', u) = EntryOf(room, u) ]_vars

\* a player who was ready has disconnected and reconnected, and is still ready in
\* a playing room of two players
C33_Witness ==
    /\ last.op = "join-room" /\ last.outcome = "reconnected"
    /\ room.exists /\ room.gameState = "playing"
    /\ Len(room.players) = 2
    /\ EntryOf(room, last.user).isReady

----------------------------------------------------------------------------
(* Leaving a room, one store operation at a time *)

\* the users of a quiz room of up to three players
Leavers == Users \cup {"C"}

\* leave-room suspended at its findByIdAndUpdate of the host
HostTask(newHost) == [ProcessTask(UNDEF, FALSE, FALSE) EXCEPT !.fn = "host", !.user = newHost]

\* leave-room suspended at its findByIdAndDelete
DeleteTask == [ProcessTask(UNDEF, FALSE, FALSE) EXCEPT !.fn = "delete"]

\* socket.on('leave-room') up to its second store operation: the $pull of the
\* player, whose result decides between deleting the room, handing the host role
\* to the first player of the list it returned, and nothing
LeavePull(u) ==
    /\ room.exists
    /\ BagCardinality(tasks) < MaxTasks
    /\ LET updatedRoom == [room EXCEPT !.players = RemoveUser(@, u)] IN
       /\ room' = updatedRoom
       /\ IF Len(updatedRoom.players) = 0
          THEN /\ tasks' = tasks (+) SetToBag({DeleteTask})
               /\ last' = Step("leave-room", u, "pulled", <<>>, NoUpdate)
          ELSE IF updatedRoom.host = u
          THEN /\ tasks' = tasks (+) SetToBag({HostTask(updatedRoom.players[1].user)})
               /\ last' = Step("leave-room", u, "pulled", <<>>, NoUpdate)
          ELSE /\ tasks' = tasks
               /\ last' = Step("leave-room", u, "left",
                               <<ToRoom("room-updated", Len(updatedRoom.players))>>,
                               NoUpdate)
    /\ UNCHANGED <<countdown, moveRead1, writes, games, events, hist, timers>>

\* the second store operation of leave-room and the emission after it
LeaveFinish(k) ==
    /\ k.fn \in {"host", "delete"}
    /\ BagIn(k, tasks)
    /\ tasks' = tasks (-) SetToBag({k})
    /\ IF k.fn = "delete"
       THEN /\ room' = DeletedRoom
            /\ last' = Step("leave-room", NULL, "destroyed",
                            <<ToRoom("room-destroyed", "")>>, NoUpdate)
       ELSE IF room.exists
       THEN /\ room' = [room EXCEPT !.host = k.user]
            /\ last' = Step("leave-room", NULL, "host-assigned",
                            <<ToRoom("room-updated", Len(room.players))>>, NoUpdate)
       ELSE /\ room' = room
            /\ last' = Step("leave-room", NULL, "gone", <<>>, NoUpdate)
    /\ UNCHANGED <<countdown, moveRead1, writes, games, events, hist, timers>>

\* players join a quiz room and leave it, each leave in its two store operations
NextHost ==
    \/ \E u \in Leavers : JoinHttp(u)
    \/ \E u \in Leavers : LeavePull(u)
    \/ \E k \in BagToSet(tasks) : LeaveFinish(k)

SpecHost == InitQuiz /\ [][NextHost]_vars

\* no leave-room is between its two store operations
NoLeaveInProgress == \A k \in BagToSet(tasks) : k.fn \notin {"host", "delete"}

\* C34: whenever no leave is half done, the host of an existing room is one of
\* its players
C34_HostIsMember ==
    (room.exists /\ NoLeaveInProgress) => findIndex(room.players, room.host) >= 0

----------------------------------------------------------------------------
(* A game start whose save is rejected *)

\* the setInterval callback of startCountdown at expiry when room.save() of
\* startGame rejects: the interval is cleared, nothing is stored, the catch block
\* broadcasts an error; a quiz room has by then cleared its timers and registered
\* the timer of the first question
FailStartGame ==
    /\ countdown = 1
    /\ countdown' = 0
    /\ room.exists
    /\ last' = Step("tick", NULL, "failed",
                    <<ToRoom("countdown-update", countdown),
                      ToRoom("error", "Failed to start game. Please try again.")>>,
                    NoUpdate)
    /\ IF room.gameType = "quiz"
       THEN /\ timers' = addRoomTimer(clearRoomTimers(timers), "first", -1)
            /\ tasks' = cancelled(tasks)
       ELSE UNCHANGED <<timers, tasks>>
    /\ UNCHANGED <<room, moveRead1, writes, games, events, hist>>

\* readiness and countdown in a room whose game start can fail at the save
NextFailedStart ==
    \/ \E u \in Users : JoinHttp(u)
    \/ \E u \in Users : JoinRoom(u)
    \/ \E u \in Users : ToggleReady(u)
    \/ Tick
    \/ FailStartGame
    \/ \E u \in Users : LeaveRoom(u)

SpecFailedStart == Init /\ [][NextFailedStart]_vars

\* C36: after a countdown expiry whose game start fails, the room is waiting and
\* the failure has been broadcast to the room
C36_FailedStartLeavesWaiting ==
    [][ (last'.op = "tick" /\ last'.outcome = "failed")
        => /\ room'.gameState = "waiting"
           /\ \E i \in DOMAIN last'.emits :
                 last'.emits[i].to = "room" /\ last'.emits[i].event = "error" ]_vars

----------------------------------------------------------------------------
(* A quiz game under fair scheduling *)

\* a timer of the room fires
TimerFires ==
    \/ \E t \in BagToSet(timers) : StartQuizQuestion(t)
    \/ \E t \in BagToSet(timers) : QuestionTimeout(t)
    \/ \E t \in BagToSet(timers) : EndTimer(t)

\* a quiz room whose players answer and disconnect; nobody leaves and nobody
\* restarts the game
NextLive ==
    \/ \E u \in Users : JoinHttp(u)
    \/ Tick
    \/ \E u \in Users : Disconnect(u)
    \/ TimerFires
    \/ \E k \in BagToSet(tasks) : ProcessQuizQuestion(k)
    \/ \E k \in BagToSet(tasks) : ScheduleNext(k)
    \/ \E u \in Users \ Disconnected, q \in QuizIndices, ans \in Options :
          QuizMoveRead(u, q, ans, UNDEF)
    \/ \E k \in BagToSet(tasks) : QuizMoveWrite(k)

\* a live timer eventually fires, and a suspended handler eventually resumes
SpecLive ==
    /\ InitQuiz
    /\ [][NextLive]_vars
    /\ WF_vars(TimerFires)
    /\ WF_vars(\E k \in BagToSet(tasks) : ProcessQuizQuestion(k))
    /\ WF_vars(\E k \in BagToSet(tasks) : ScheduleNext(k))
    /\ WF_vars(\E k \in BagToSet(tasks) : QuizMoveWrite(k))

\* the final scores are being broadcast in a finished room
FinalScoresSent ==
    /\ room.gameState = "finished"
    /\ \E i \in DOMAIN last.emits : last.emits[i].event = "game-ended"

\* C32: a quiz game that is playing leads to a finished room whose final scores
\* are broadcast
C32_PlayingLeadsToFinished ==
    (room.exists /\ room.gameType = "quiz" /\ room.gameState = "playing") ~> FinalScoresSent

\* the end-of-game timer has finished a game that went through all its rounds
\* while a player was disconnected, and the final scores are being broadcast
C32_Witness ==
    /\ FinalScoresSent
    /\ last.op = "end-timer"
    /\ room.currentQuestion >= NumQuestions
    /\ Disconnected # {}
    /\ Len(room.players) = 2

----------------------------------------------------------------------------
(* The answer key *)

\* a quiz room whose games get any selection of questions, with players
\* answering, leaving and restarting
NextKey ==
    \/ \E u \in Users : JoinHttp(u)
    \/ \E s \in QuizSets : TickWith(s)
    \/ \E u \in Users : LeaveRoom(u)
    \/ \E u \in Users : RestartGame(u)
    \/ \E t \in BagToSet(timers) : IssueQuizQuestion(t)
    \/ \E t \in BagToSet(timers) : QuestionTimeout(t)
    \/ \E t \in BagToSet(timers) : EndTimer(t)
    \/ \E k \in BagToSet(tasks) : ProcessQuizQuestion(k)
    \/ \E k \in BagToSet(tasks) : ScheduleNext(k)
    \/ \E u \in Users, q \in QuizIndices, ans \in Options : QuizMoveRead(u, q, ans, UNDEF)
    \/ \E k \in BagToSet(tasks) : QuizMoveWrite(k)

SpecKey == InitQuiz /\ [][NextKey]_vars

\* the answer keys being broadcast
AnswerKeys ==
    {last.emits[i].data.summaryDetails :
        i \in {j \in DOMAIN last.emits : last.emits[j].event = "game-ended"}}

\* C31: the answer key broadcast at the end of a game has, for every round issued
\* in the game, the question that was issued, and for every round scored in the
\* game, the correct index it was scored with
C31_AnswerKeyMatchesRounds ==
    \A key \in AnswerKeys :
       /\ \A e \in hist.issued :
             /\ e.round + 1 \in DOMAIN key
             /\ key[e.round + 1].question = e.question.question
             /\ key[e.round + 1].correctAnswer = e.question.correctAnswer
       /\ \A c \in hist.scored :
             /\ c.round + 1 \in DOMAIN key
             /\ key[c.round + 1].correctAnswer = c.correctAnswer

\* the end-of-game timer broadcasts the key of a game played on selection 1 whose
\* rounds were all issued and scored
C31_Witness ==
    /\ last.op = "end-timer"
    /\ AnswerKeys # {}
    /\ room.questionSet = 1
    /\ {e.round : e \in hist.issued} = 0..(NumQuestions - 1)
    /\ {c.round : c \in hist.scored} = 0..(NumQuestions - 1)

====
